---- MODULE Spec2Model ----
(***************************************************************************)
(* A model of pysubs2's SSAFile (src/pysubs2/ssafile.py) and of the TMP    *)
(* subtitle codec TmpFormat (src/pysubs2/tmp.py).                          *)
(*                                                                         *)
(* Text is modelled character by character: a text is a sequence of        *)
(* one-character strings, so that regular-expression matching, replace()   *)
(* and len() are computed as the code computes them.  Python's str/bytes   *)
(* distinction is not modelled: both are sequences of characters here.     *)
(*                                                                         *)
(* Style records live in a heap (address -> record) and a style table maps *)
(* names to addresses, so that two tables holding the same Python object   *)
(* are distinguishable from two tables holding equal copies.               *)
(***************************************************************************)
EXTENDS Integers, Sequences, FiniteSets, TLC

VARIABLES heap, docs, fp, result, pre

vars == <<heap, docs, fp, result, pre>>

(***************************************************************************)
(* Bounds of the model.                                                    *)
(***************************************************************************)
MaxDocs == 2
MaxEvents == 2
MaxStyles == 1
MaxLines == 2
MaxTime == 2
MaxDelta == 1

(***************************************************************************)
(* Characters and character sequences.                                     *)
(***************************************************************************)
DigitChars == <<"0", "1", "2", "3", "4", "5", "6", "7", "8", "9">>

Letters ==
    {"a", "b", "c", "d", "e", "f", "g", "h", "i", "j", "k", "l", "m", "n", "o",
     "p", "q", "r", "s", "t", "u", "v", "w", "x", "y", "z",
     "A", "B", "C", "D", "E", "F", "G", "H", "I", "J", "K", "L", "M", "N", "O",
     "P", "Q", "R", "S", "T", "U", "V", "W", "X", "Y", "Z"}

IsDigit(c) == \E k \in 1..10 : DigitChars[k] = c

DigitValue(c) == (CHOOSE k \in 1..10 : DigitChars[k] = c) - 1

CharAt(s, i) == IF i >= 1 /\ i <= Len(s) THEN s[i] ELSE "EOF"

StartsWith(s, i, pat) ==
    /\ i + Len(pat) - 1 <= Len(s)
    /\ \A k \in 1..Len(pat) : s[i + k - 1] = pat[k]

\* Python's  pat in s
Contains(s, pat) == \E i \in 1..(Len(s) + 1) : StartsWith(s, i, pat)

RECURSIVE ReplaceFrom(_, _, _, _)
ReplaceFrom(s, i, pat, rep) ==
    IF i > Len(s) THEN <<>>
    ELSE IF StartsWith(s, i, pat)
         THEN rep \o ReplaceFrom(s, i + Len(pat), pat, rep)
         ELSE <<s[i]>> \o ReplaceFrom(s, i + 1, pat, rep)

\* Python's  s.replace(pat, rep)  for a non-empty pat
Replace(s, pat, rep) == ReplaceFrom(s, 1, pat, rep)

RECURSIVE Flatten(_)
Flatten(ss) == IF ss = <<>> THEN <<>> ELSE Head(ss) \o Flatten(Tail(ss))

\* index of the first occurrence of c in s at or after i, Len(s)+1 if none
RECURSIVE IndexFrom(_, _, _)
IndexFrom(s, i, c) ==
    IF i > Len(s) THEN Len(s) + 1
    ELSE IF s[i] = c THEN i ELSE IndexFrom(s, i + 1, c)

\* iteration of a file object: the lines, each with its line terminator
RECURSIVE FileLines(_)
FileLines(s) ==
    IF s = <<>> THEN <<>>
    ELSE LET n == IndexFrom(s, 1, "\n")
         IN  IF n >= Len(s) THEN <<s>>
             ELSE <<SubSeq(s, 1, n)>> \o FileLines(SubSeq(s, n + 1, Len(s)))

\* Python's  text.splitlines(): the lines without their terminators
RECURSIVE splitlines(_)
splitlines(s) ==
    IF s = <<>> THEN <<>>
    ELSE LET n == IndexFrom(s, 1, "\n")
         IN  IF n >= Len(s) THEN <<SubSeq(s, 1, n - 1)>>
             ELSE <<SubSeq(s, 1, n - 1)>> \o splitlines(SubSeq(s, n + 1, Len(s)))

\* Python's  s.strip(): leading and trailing whitespace removed
IsSpace(c) == c \in {" ", "\n", "\t", "\r"}

RECURSIVE LStrip(_)
LStrip(s) == IF s # <<>> /\ IsSpace(Head(s)) THEN LStrip(Tail(s)) ELSE s

RECURSIVE RStrip(_)
RStrip(s) ==
    IF s # <<>> /\ IsSpace(s[Len(s)]) THEN RStrip(SubSeq(s, 1, Len(s) - 1)) ELSE s

strip(s) == RStrip(LStrip(s))

\* re.sub("\n+", "\n", s): every run of newlines becomes one newline
RECURSIVE CollapseNewlines(_)
CollapseNewlines(s) ==
    IF s = <<>> THEN <<>>
    ELSE IF Head(s) = "\n" /\ Len(s) >= 2 /\ s[2] = "\n"
         THEN CollapseNewlines(Tail(s))
         ELSE <<Head(s)>> \o CollapseNewlines(Tail(s))

(***************************************************************************)
(* Time (pysubs2/time.py).                                                 *)
(***************************************************************************)
make_time(h, m, s, ms) == ms + s * 1000 + m * 60000 + h * 3600000

\* [h, m, s, ms] of a non-negative number of milliseconds
ms_to_times(ms) ==
    [h |-> ms \div 3600000,
     m |-> (ms % 3600000) \div 60000,
     s |-> (ms % 60000) \div 1000,
     ms |-> ms % 1000]

\* the groups of TIMESTAMP_SHORT on "H:MM:SS" or "HH:MM:SS", as numbers
RECURSIVE DecimalValue(_)
DecimalValue(s) ==
    IF s = <<>> THEN 0
    ELSE DecimalValue(SubSeq(s, 1, Len(s) - 1)) * 10 + DigitValue(s[Len(s)])

TIMESTAMP_SHORT_groups(ts) ==
    LET c == IndexFrom(ts, 1, ":")
    IN  <<DecimalValue(SubSeq(ts, 1, c - 1)),
          DecimalValue(SubSeq(ts, c + 1, c + 2)),
          DecimalValue(SubSeq(ts, c + 4, c + 5))>>

timestamp_to_ms(groups) ==
    groups[1] * 3600000 + groups[2] * 60000 + groups[3] * 1000

TwoDigits(n) == <<DigitChars[((n \div 10) % 10) + 1], DigitChars[(n % 10) + 1]>>

MAX_REPRESENTABLE_TIME == make_time(99, 59, 59, 0)

(***************************************************************************)
(* Records.                                                                *)
(***************************************************************************)
\* SSAStyle(): the attributes the TMP writer reads
SSAStyle == [italic |-> FALSE, underline |-> FALSE, strikeout |-> FALSE, drawing |-> FALSE]

\* SSAStyle.DEFAULT_STYLE, the fallback of an unresolved style reference
DEFAULT_STYLE == SSAStyle

\* SSAEvent(start=, end=, text=): style and type take their defaults
SSAEvent(start, end, text) ==
    [start |-> start, end |-> end, text |-> text, style |-> "Default", is_comment |-> FALSE]

\* what the last call was and how it ended, with the arguments of a call that
\* changed the state
Res(op, out) ==
    [op |-> op, out |-> out, d |-> 0, other |-> 0, old |-> "", new |-> "",
     overwrite |-> FALSE, delta |-> 0, undoes |-> FALSE, apply_styles |-> FALSE]

(***************************************************************************)
(* TMP_LINE = (\d{1,2}:\d{2}:\d{2}):(.+)                                   *)
(***************************************************************************)
\* the match of TMP_LINE in s starting at index i
TMP_LINE_at(s, i) ==
    LET d == IF IsDigit(CharAt(s, i)) /\ IsDigit(CharAt(s, i + 1)) THEN 2
             ELSE IF IsDigit(CharAt(s, i)) THEN 1 ELSE 0
        p == i + d
        ok == /\ d >= 1
              /\ CharAt(s, p) = ":"
              /\ IsDigit(CharAt(s, p + 1)) /\ IsDigit(CharAt(s, p + 2))
              /\ CharAt(s, p + 3) = ":"
              /\ IsDigit(CharAt(s, p + 4)) /\ IsDigit(CharAt(s, p + 5))
              /\ CharAt(s, p + 6) = ":"
              /\ p + 7 <= Len(s) /\ s[p + 7] # "\n"
        e == IndexFrom(s, p + 7, "\n") - 1
    IN  IF ok
        THEN [matched |-> TRUE, start |-> SubSeq(s, i, p + 5),
              text |-> SubSeq(s, p + 7, e), last |-> e]
        ELSE [matched |-> FALSE, start |-> <<>>, text |-> <<>>, last |-> 0]

\* TMP_LINE.match(line)
TMP_LINE_match(line) == TMP_LINE_at(line, 1)

\* len(TMP_LINE.findall(line)): the non-overlapping matches, scanning from i
RECURSIVE TMP_LINE_findall(_, _)
TMP_LINE_findall(line, i) ==
    IF i > Len(line) THEN 0
    ELSE LET m == TMP_LINE_at(line, i)
         IN  IF m.matched THEN 1 + TMP_LINE_findall(line, m.last + 1)
             ELSE TMP_LINE_findall(line, i + 1)

(***************************************************************************)
(* TmpFormat.ms_to_timestamp and TmpFormat.guess_format                    *)
(***************************************************************************)
ms_to_timestamp(ms) ==
    LET ms1 == IF ms < 0 THEN 0 ELSE ms
        ms2 == IF ms1 > MAX_REPRESENTABLE_TIME THEN MAX_REPRESENTABLE_TIME ELSE ms1
        t == ms_to_times(ms2)
    IN  TwoDigits(t.h) \o <<":">> \o TwoDigits(t.m) \o <<":">> \o TwoDigits(t.s)

SCRIPT_INFO == <<"[", "S", "c", "r", "i", "p", "t", " ", "I", "n", "f", "o", "]">>

V4_STYLES == <<"[", "V", "4", "+", " ", "S", "t", "y", "l", "e", "s", "]">>

guess_format_LinesFirst(text) ==
    LET lines == splitlines(text)
    IN  IF \E k \in 1..Len(lines) :
               /\ TMP_LINE_match(lines[k]).matched
               /\ TMP_LINE_findall(lines[k], 1) = 1
        THEN "tmp"
        ELSE "None"

guess_format(text) ==
    IF Contains(text, SCRIPT_INFO) \/ Contains(text, V4_STYLES)
    THEN "None"
    ELSE LET lines == splitlines(text)
         IN  IF \E k \in 1..Len(lines) :
                    /\ TMP_LINE_match(lines[k]).matched
                    /\ TMP_LINE_findall(lines[k], 1) = 1
             THEN "tmp"
             ELSE "None"

(***************************************************************************)
(* TmpFormat.from_file                                                     *)
(***************************************************************************)
RECURSIVE SkipSpaces(_, _)
SkipSpaces(s, i) == IF CharAt(s, i) = " " THEN SkipSpaces(s, i + 1) ELSE i

\* index of the last character of a match of  < *u *>  at i, 0 if none
UnderlineTagEnd(s, i) ==
    IF CharAt(s, i) # "<" THEN 0
    ELSE LET j == SkipSpaces(s, i + 1)
         IN  IF CharAt(s, j) # "u" THEN 0
             ELSE LET k == SkipSpaces(s, j + 1)
                  IN  IF CharAt(s, k) = ">" THEN k ELSE 0

\* index of the last character of a match of  < */? *[a-zA-Z][^>]*>  at i, 0 if none
HtmlTagEnd(s, i) ==
    IF CharAt(s, i) # "<" THEN 0
    ELSE LET j == SkipSpaces(s, i + 1)
             k == SkipSpaces(s, IF CharAt(s, j) = "/" THEN j + 1 ELSE j)
             g == IndexFrom(s, k + 1, ">")
         IN  IF CharAt(s, k) \in Letters /\ g <= Len(s) THEN g ELSE 0

RECURSIVE SubUnderline(_, _)
SubUnderline(s, i) ==
    IF i > Len(s) THEN <<>>
    ELSE IF UnderlineTagEnd(s, i) # 0
         THEN <<"{", "\\", "u", "1", "}">> \o SubUnderline(s, UnderlineTagEnd(s, i) + 1)
         ELSE <<s[i]>> \o SubUnderline(s, i + 1)

RECURSIVE StripHtmlTags(_, _)
StripHtmlTags(s, i) ==
    IF i > Len(s) THEN <<>>
    ELSE IF HtmlTagEnd(s, i) # 0
         THEN StripHtmlTags(s, HtmlTagEnd(s, i) + 1)
         ELSE <<s[i]>> \o StripHtmlTags(s, i + 1)

from_file_prepare_text(text) ==
    LET t1 == Replace(text, <<"|">>, <<"\\", "N">>)
        t2 == SubUnderline(t1, 1)
    IN  StripHtmlTags(t2, 1)

\* the loop over the lines: one event per matching line
RECURSIVE from_file_events(_)
from_file_events(lines) ==
    IF lines = <<>> THEN <<>>
    ELSE LET line == Head(lines)
             match == TMP_LINE_match(line)
             start == timestamp_to_ms(TIMESTAMP_SHORT_groups(match.start))
             end_guess == start + 500 + (Len(line) * 67)
         IN  IF ~match.matched THEN from_file_events(Tail(lines))
             ELSE <<SSAEvent(start, end_guess, from_file_prepare_text(match.text))>>
                  \o from_file_events(Tail(lines))

Min(a, b) == IF a <= b THEN a ELSE b

\* for i in range(len(events) - 1): events[i].end = min(events[i].end, events[i+1].start)
RepairLastPairSkipped(events) ==
    [i \in 1..Len(events) |->
        IF i < Len(events) - 1
        THEN [events[i] EXCEPT !.end = Min(events[i].end, events[i + 1].start)]
        ELSE events[i]]

correct_overlaps(events) ==
    [i \in 1..Len(events) |->
        IF i < Len(events)
        THEN [events[i] EXCEPT !.end = Min(events[i].end, events[i + 1].start)]
        ELSE events[i]]

from_file(text) == correct_overlaps(from_file_events(FileLines(text)))

(***************************************************************************)
(* The override-tag parser (pysubs2/substation.py, parse_tags).            *)
(***************************************************************************)
\* an override block {\i1}, {\u0}, {\s1}, {\p1}, ... : a toggle of one attribute
IsToggle(block) ==
    /\ Len(block) = 3
    /\ block[1] = "\\"
    /\ block[2] \in {"i", "u", "s", "p"}
    /\ block[3] \in {"0", "1"}

apply_overrides(sty, block) ==
    LET on == block[3] = "1"
    IN  CASE block[2] = "i" -> [sty EXCEPT !.italic = on]
          [] block[2] = "u" -> [sty EXCEPT !.underline = on]
          [] block[2] = "s" -> [sty EXCEPT !.strikeout = on]
          [] OTHER -> [sty EXCEPT !.drawing = on]

\* the (fragment, style) pairs of text from index i on; cur is the fragment so far
RECURSIVE parse_tags_from(_, _, _, _)
parse_tags_from(text, i, cur, sty) ==
    IF i > Len(text) THEN <<[fragment |-> cur, sty |-> sty]>>
    ELSE LET j == IndexFrom(text, i + 1, "}")
         IN  IF text[i] = "{" /\ j <= Len(text) /\ IsToggle(SubSeq(text, i + 1, j - 1))
             THEN <<[fragment |-> cur, sty |-> sty]>>
                  \o parse_tags_from(text, j + 1, <<>>,
                                     apply_overrides(sty, SubSeq(text, i + 1, j - 1)))
             ELSE parse_tags_from(text, i + 1, Append(cur, text[i]), sty)

parse_tags(text, style) == parse_tags_from(text, 1, <<>>, style)

(***************************************************************************)
(* TmpFormat.to_file                                                       *)
(***************************************************************************)
\* the body of the loop over the fragments, up to body.append(fragment)
to_file_fragment(fragment, sty, apply_styles) ==
    LET f1 == Replace(fragment, <<"\\", "h">>, <<" ">>)
        f2 == Replace(f1, <<"\\", "n">>, <<"\n">>)
        f3 == Replace(f2, <<"\\", "N">>, <<"\n">>)
        f4 == IF apply_styles /\ sty.italic
              THEN <<"<", "i", ">">> \o f3 \o <<"<", "/", "i", ">">> ELSE f3
        f5 == IF apply_styles /\ sty.underline
              THEN <<"<", "u", ">">> \o f4 \o <<"<", "/", "u", ">">> ELSE f4
    IN  IF apply_styles /\ sty.strikeout
        THEN <<"<", "s", ">">> \o f5 \o <<"<", "/", "s", ">">> ELSE f5

to_file_prepare_text(text, style, apply_styles) ==
    LET frags == parse_tags(text, style)
        body == [k \in 1..Len(frags) |->
                    to_file_fragment(frags[k].fragment, frags[k].sty, apply_styles)]
        skip == \E k \in 1..Len(frags) : frags[k].sty.drawing
    IN  IF skip THEN <<>> ELSE CollapseNewlines(strip(Flatten(body)))

\* subs.styles.get(line.style, SSAStyle.DEFAULT_STYLE)
styles_get(h, styles, name) ==
    IF name \in DOMAIN styles THEN h[styles[name]] ELSE DEFAULT_STYLE

\* the text written for the events from index i on
RECURSIVE to_file_from(_, _, _, _)
to_file_from(h, subs, i, apply_styles) ==
    IF i > Len(subs.events) THEN <<>>
    ELSE LET line == subs.events[i]
             start == ms_to_timestamp(line.start)
             text == to_file_prepare_text(line.text,
                         styles_get(h, subs.styles, line.style), apply_styles)
         IN  (IF line.is_comment THEN <<>> ELSE start \o <<":">> \o text \o <<"\n">>)
             \o to_file_from(h, subs, i + 1, apply_styles)

to_file(h, subs, apply_styles) == to_file_from(h, subs, 1, apply_styles)

(***************************************************************************)
(* SSAFile: construction.                                                  *)
(***************************************************************************)
\* SSAFile.DEFAULT_STYLES: one table, built once, whose "Default" entry is the
\* style record at heap address 0
DEFAULT_STYLES == "Default" :> 0

\* the heap once the class SSAFile is defined
ClassHeap == 0 :> SSAStyle

\* self.events = []; self.styles = self.DEFAULT_STYLES.copy(): the copy is a new
\* table holding the same record
NewSSAFile == [events |-> <<>>, styles |-> DEFAULT_STYLES]

(***************************************************************************)
(* The TMP codec as a state machine: a file fp and one document docs[1].   *)
(***************************************************************************)
LinePool ==
    {<<"0", "0", ":", "0", "0", ":", "0", "2", ":", "a", "|", "b", "\n">>,
     <<"0", ":", "0", "0", ":", "0", "1", ":", "<", "u", ">", "c", "\n">>,
     <<"0", "0", ":", "0", "0", ":", "0", "3", ":", "<", "i", ">", "d", "<", "/", "i", ">", "\n">>,
     <<"x", "\n">>,
     <<"[", "S", "c", "r", "i", "p", "t", " ", "I", "n", "f", "o", "]", "\n">>,
     <<"0", "0", ":", "0", "0", ":", "0", "1", ":",
       "[", "V", "4", "+", " ", "S", "t", "y", "l", "e", "s", "]", "\n">>}

\* the files of at most n lines of LinePool
RECURSIVE FilesUpTo(_)
FilesUpTo(n) ==
    IF n = 0 THEN {<<>>}
    ELSE LET shorter == FilesUpTo(n - 1)
         IN  shorter \cup {l \o f : l \in LinePool, f \in shorter}

TmpEventPool ==
    {[start |-> 1000, end |-> 2000, text |-> <<"a">>,
      style |-> "Default", is_comment |-> FALSE],
     [start |-> 2000, end |-> 3000, text |-> <<"a", "\\", "N", "b">>,
      style |-> "Default", is_comment |-> FALSE],
     [start |-> 1000, end |-> 2000,
      text |-> <<"{", "\\", "p", "1", "}", "m", "{", "\\", "p", "0", "}", "c">>,
      style |-> "Default", is_comment |-> FALSE],
     [start |-> 3000, end |-> 4000, text |-> <<"c">>,
      style |-> "Foo", is_comment |-> FALSE],
     [start |-> 2000, end |-> 3000, text |-> <<"z">>,
      style |-> "Default", is_comment |-> TRUE],
     [start |-> 1500, end |-> 2500, text |-> <<"b">>,
      style |-> "Bar", is_comment |-> FALSE]}

TmpStylePool ==
    {[SSAStyle EXCEPT !.italic = TRUE],
     [SSAStyle EXCEPT !.underline = TRUE],
     [SSAStyle EXCEPT !.strikeout = TRUE],
     [SSAStyle EXCEPT !.drawing = TRUE]}

\* the sequences of at most n events of TmpEventPool
RECURSIVE EventsUpTo(_)
EventsUpTo(n) ==
    IF n = 0 THEN {<<>>}
    ELSE LET shorter == EventsUpTo(n - 1)
         IN  shorter \cup {<<e>> \o es : e \in TmpEventPool, es \in shorter}

\* either a file to read into a new document, or a document to write
InitTmp ==
    /\ pre = <<>>
    /\ result = Res("init", "ok")
    /\ \/ /\ fp \in FilesUpTo(MaxLines)
          /\ heap = ClassHeap
          /\ docs = <<NewSSAFile>>
       \/ /\ fp = <<>>
          /\ \E st \in TmpStylePool : heap = ClassHeap @@ (1 :> st)
          /\ \E es \in EventsUpTo(MaxEvents) :
                docs = <<[events |-> es, styles |-> DEFAULT_STYLES @@ ("Foo" :> 1)]>>

\* TmpFormat.from_file(subs, fp, "tmp") with subs = docs[1]
TmpFromFile ==
    /\ docs' = [docs EXCEPT ![1].events = from_file(fp)]
    /\ result' = Res("from_file", "ok")
    /\ UNCHANGED <<heap, fp, pre>>

\* TmpFormat.to_file(subs, fp, "tmp", apply_styles) with subs = docs[1], fp a new file
TmpToFile(apply_styles) ==
    /\ fp' = to_file(heap, docs[1], apply_styles)
    /\ result' = [Res("to_file", "ok") EXCEPT !.apply_styles = apply_styles]
    /\ UNCHANGED <<heap, docs, pre>>

\* TmpFormat.guess_format(text) with text the content of fp
TmpGuessFormat ==
    /\ result' = Res("guess_format", guess_format(fp))
    /\ UNCHANGED <<heap, docs, fp, pre>>

NextTmp ==
    \/ TmpFromFile
    \/ \E apply_styles \in BOOLEAN : TmpToFile(apply_styles)
    \/ TmpGuessFormat

SpecTmp == InitTmp /\ [][NextTmp]_vars

(***************************************************************************)
(* SSAFile: the operations on a document docs[d].                          *)
(***************************************************************************)
\* SSAFile(): a new document
NewDocument ==
    /\ Len(docs) < MaxDocs
    /\ docs' = Append(docs, NewSSAFile)
    /\ result' = Res("SSAFile", "ok")
    /\ pre' = <<>>
    /\ UNCHANGED <<heap, fp>>

\* insert(index, value) with value an SSAEvent and 0 <= index <= len(self)
insert(d, index, value) ==
    /\ Len(docs[d].events) < MaxEvents
    /\ docs' = [docs EXCEPT ![d].events =
                    SubSeq(@, 1, index) \o <<value>> \o SubSeq(@, index + 1, Len(@))]
    /\ result' = Res("insert", "ok")
    /\ pre' = <<>>
    /\ UNCHANGED <<heap, fp>>

InRange(events) ==
    \A i \in 1..Len(events) :
        /\ events[i].start \in -MaxTime..MaxTime
        /\ events[i].end \in -MaxTime..MaxTime

\* the loop of shift: line.start += delta; line.end += delta
ShiftedClamped(events, delta) ==
    [i \in 1..Len(events) |->
        [events[i] EXCEPT !.start = IF @ + delta < 0 THEN 0 ELSE @ + delta,
                          !.end = IF @ + delta < 0 THEN 0 ELSE @ + delta]]

Shifted(events, delta) ==
    [i \in 1..Len(events) |->
        [events[i] EXCEPT !.start = @ + delta, !.end = @ + delta]]

\* shift(ms=ms)
shift(d, ms) ==
    LET delta == make_time(0, 0, 0, ms)
    IN  /\ InRange(Shifted(docs[d].events, delta))
        /\ docs' = [docs EXCEPT ![d].events = Shifted(@, delta)]
        /\ result' = [Res("shift", "ok") EXCEPT
                         !.d = d, !.delta = ms,
                         !.undoes = /\ result.op = "shift"
                                    /\ result.d = d
                                    /\ result.delta = -ms]
        /\ pre' = docs
        /\ UNCHANGED <<heap, fp>>

\* int(round(x * (num / den))) for den > 0: Python 3 rounds a half to the even side
PyRound(num, den) ==
    LET q == num \div den
        r == num % den
    IN  IF 2 * r < den THEN q
        ELSE IF 2 * r > den THEN q + 1
        ELSE IF q % 2 = 0 THEN q ELSE q + 1

Rescaled(events, in_fps, out_fps) ==
    [i \in 1..Len(events) |->
        [events[i] EXCEPT !.start = PyRound(@ * in_fps, out_fps),
                          !.end = PyRound(@ * in_fps, out_fps)]]

transform_framerate(d, in_fps, out_fps) ==
    /\ result' = Res("transform_framerate",
                      IF in_fps <= 0 \/ out_fps <= 0 THEN "ValueError" ELSE "ok")
    /\ IF in_fps <= 0 \/ out_fps <= 0
       THEN docs' = docs
       ELSE /\ InRange(Rescaled(docs[d].events, in_fps, out_fps))
            /\ docs' = [docs EXCEPT ![d].events = Rescaled(@, in_fps, out_fps)]
    /\ pre' = <<>>
    /\ UNCHANGED <<heap, fp>>

\* the characters of the style names the model uses
NameChars ==
    ("Default" :> <<"D", "e", "f", "a", "u", "l", "t">>)
    @@ ("Foo" :> <<"F", "o", "o">>)
    @@ ("a,b" :> <<"a", ",", "b">>)
    @@ ("" :> <<>>)

NamePool == DOMAIN NameChars

\* pysubs2/formats/substation.py: a name is not empty and holds no comma
is_valid_field_content(name) ==
    /\ NameChars[name] # <<>>
    /\ ~Contains(NameChars[name], <<",">>)

\* self.styles[new_name] = self.styles[old_name]; del self.styles[old_name]
RenamedTable(styles, old_name, new_name) ==
    [n \in (DOMAIN styles \cup {new_name}) \ {old_name} |->
        IF n = new_name THEN styles[old_name] ELSE styles[n]]

\* the loop of rename_style over the events
RenamedEvents(events, old_name, new_name) ==
    [i \in 1..Len(events) |->
        IF events[i].style = old_name
        THEN [events[i] EXCEPT !.style = new_name] ELSE events[i]]

rename_style_LateCheck(d, old_name, new_name) ==
    LET styles == docs[d].styles
        out == IF old_name \notin DOMAIN styles THEN "KeyError"
               ELSE IF new_name \in DOMAIN styles THEN "ValueError"
               ELSE IF ~is_valid_field_content(new_name) THEN "ValueError"
               ELSE "ok"
    IN  /\ result' = IF out = "ok"
                      THEN [Res("rename_style", out) EXCEPT
                               !.d = d, !.old = old_name, !.new = new_name]
                      ELSE Res("rename_style", out)
        /\ IF old_name \notin DOMAIN styles \/ new_name \in DOMAIN styles
           THEN docs' = docs
           ELSE IF ~is_valid_field_content(new_name)
           THEN docs' = [docs EXCEPT
                    ![d].styles = [n \in DOMAIN styles \cup {new_name} |->
                                     IF n = new_name THEN styles[old_name] ELSE styles[n]]]
           ELSE docs' = [docs EXCEPT
                    ![d].styles = RenamedTable(styles, old_name, new_name),
                    ![d].events = RenamedEvents(@, old_name, new_name)]
        /\ pre' = <<>>
        /\ UNCHANGED <<heap, fp>>

rename_style_KeepsOld(d, old_name, new_name) ==
    LET styles == docs[d].styles
        out == IF old_name \notin DOMAIN styles THEN "KeyError"
               ELSE IF new_name \in DOMAIN styles THEN "ValueError"
               ELSE IF ~is_valid_field_content(new_name) THEN "ValueError"
               ELSE "ok"
    IN  /\ result' = IF out = "ok"
                      THEN [Res("rename_style", out) EXCEPT
                               !.d = d, !.old = old_name, !.new = new_name]
                      ELSE Res("rename_style", out)
        /\ IF out # "ok"
           THEN docs' = docs
           ELSE docs' = [docs EXCEPT
                    ![d].styles = [n \in DOMAIN styles \cup {new_name} |->
                                     IF n = new_name THEN styles[old_name] ELSE styles[n]],
                    ![d].events = RenamedEvents(@, old_name, new_name)]
        /\ pre' = <<>>
        /\ UNCHANGED <<heap, fp>>

rename_style(d, old_name, new_name) ==
    LET styles == docs[d].styles
        out == IF old_name \notin DOMAIN styles THEN "KeyError"
               ELSE IF new_name \in DOMAIN styles THEN "ValueError"
               ELSE IF ~is_valid_field_content(new_name) THEN "ValueError"
               ELSE "ok"
    IN  /\ result' = IF out = "ok"
                      THEN [Res("rename_style", out) EXCEPT
                               !.d = d, !.old = old_name, !.new = new_name]
                      ELSE Res("rename_style", out)
        /\ IF out # "ok"
           THEN docs' = docs
           ELSE docs' = [docs EXCEPT
                    ![d].styles = RenamedTable(styles, old_name, new_name),
                    ![d].events = RenamedEvents(@, old_name, new_name)]
        /\ pre' = <<>>
        /\ UNCHANGED <<heap, fp>>

\* the loop of import_styles over subs.styles.items(), subs = docs[other]
ImportedAlwaysOverwrite(own, incoming, overwrite) ==
    [n \in DOMAIN own \cup DOMAIN incoming |->
        IF n \in DOMAIN incoming THEN incoming[n] ELSE own[n]]

Imported(own, incoming, overwrite) ==
    [n \in DOMAIN own \cup DOMAIN incoming |->
        IF n \in DOMAIN incoming /\ (n \notin DOMAIN own \/ overwrite)
        THEN incoming[n] ELSE own[n]]

import_styles(d, other, overwrite) ==
    /\ docs' = [docs EXCEPT ![d].styles = Imported(@, docs[other].styles, overwrite)]
    /\ result' = [Res("import_styles", "ok") EXCEPT
                     !.d = d, !.other = other, !.overwrite = overwrite]
    /\ pre' = <<>>
    /\ UNCHANGED <<heap, fp>>

\* subs.styles[name] = SSAStyle(...): a new record, stored under name
set_style(d, name, style) ==
    LET a == Cardinality(DOMAIN heap)
    IN  /\ a <= MaxStyles
        /\ heap' = heap @@ (a :> style)
        /\ docs' = [docs EXCEPT ![d].styles =
                        [n \in DOMAIN @ \cup {name} |-> IF n = name THEN a ELSE @[n]]]
        /\ result' = Res("set_style", "ok")
        /\ pre' = <<>>
        /\ UNCHANGED fp

\* subs.styles[name].italic = not subs.styles[name].italic
set_italic(d, name) ==
    /\ name \in DOMAIN docs[d].styles
    /\ heap' = [heap EXCEPT ![docs[d].styles[name]].italic = ~@]
    /\ result' = [Res("set_italic", "ok") EXCEPT !.d = d]
    /\ pre' = <<>>
    /\ UNCHANGED <<docs, fp>>

(***************************************************************************)
(* Documents and their style tables: construction, insert, rename_style,   *)
(* import_styles, and a caller's assignments to styles.                    *)
(***************************************************************************)
StyleEventPool ==
    {[start |-> 0, end |-> 1, text |-> <<"x">>, style |-> s, is_comment |-> FALSE] :
        s \in {"Default", "Bar"}}

InitStyles ==
    /\ heap = ClassHeap
    /\ docs = <<>>
    /\ fp = <<>>
    /\ result = Res("init", "ok")
    /\ pre = <<>>

NextStyles ==
    \/ NewDocument
    \/ \E d \in 1..Len(docs) : \E index \in 0..Len(docs[d].events) :
          \E value \in StyleEventPool : insert(d, index, value)
    \/ \E d \in 1..Len(docs) : \E old_name, new_name \in NamePool :
          rename_style(d, old_name, new_name)
    \/ \E d, other \in 1..Len(docs) : \E overwrite \in BOOLEAN :
          import_styles(d, other, overwrite)
    \/ \E d \in 1..Len(docs) : \E name \in {"Default", "Foo"} :
          set_style(d, name, SSAStyle)

SpecStyles == InitStyles /\ [][NextStyles]_vars

(***************************************************************************)
(* Documents sharing style records: construction, import_styles, and a     *)
(* caller's assignments to styles and to a style's attribute.              *)
(***************************************************************************)
NextShare ==
    \/ NewDocument
    \/ \E d, other \in 1..Len(docs) : \E overwrite \in BOOLEAN :
          import_styles(d, other, overwrite)
    \/ \E d \in 1..Len(docs) : \E name \in {"Default", "Foo"} :
          set_style(d, name, SSAStyle)
    \/ \E d \in 1..Len(docs) : \E name \in NamePool : set_italic(d, name)

SpecShare == InitStyles /\ [][NextShare]_vars

(***************************************************************************)
(* One document and its timestamps: insert, shift, transform_framerate,    *)
(* rename_style.                                                           *)
(***************************************************************************)
RetimeEventPool ==
    {[start |-> 0, end |-> 1, text |-> <<"x">>, style |-> "Default", is_comment |-> FALSE],
     [start |-> 1, end |-> 2, text |-> <<"y">>, style |-> "Foo", is_comment |-> FALSE]}

FpsPool == {-1, 0, 1, 2, 25}

InitRetime ==
    /\ heap = ClassHeap
    /\ docs = <<NewSSAFile>>
    /\ fp = <<>>
    /\ result = Res("init", "ok")
    /\ pre = <<>>

NextRetime ==
    \/ \E index \in 0..Len(docs[1].events) :
          \E value \in RetimeEventPool : insert(1, index, value)
    \/ \E ms \in -MaxDelta..MaxDelta : shift(1, ms)
    \/ \E in_fps, out_fps \in FpsPool : transform_framerate(1, in_fps, out_fps)
    \/ \E old_name, new_name \in NamePool : rename_style(1, old_name, new_name)

SpecRetime == InitRetime /\ [][NextRetime]_vars

(***************************************************************************)
(* Properties of the TMP codec, under SpecTmp.                             *)
(***************************************************************************)
subs == docs[1]

\* C1: after TmpFormat.from_file, every event ends no later than the next
\* event in document order starts, whatever the order of the timestamps read.
C1_OverlapRepaired ==
    result.op = "from_file" =>
        \A i \in 1..(Len(subs.events) - 1) :
            subs.events[i].end <= subs.events[i + 1].start

\* a file whose timestamps decrease has been read
C1_Witness ==
    /\ result.op = "from_file"
    /\ Len(subs.events) >= 2
    /\ \E i \in 1..(Len(subs.events) - 1) :
          subs.events[i].start > subs.events[i + 1].start

\* C8: guess_format returns none, never "tmp", for a text that contains
\* [Script Info] or [V4+ Styles], also when a line matches TMP_LINE.
C8_SentinelNeverTmp ==
    (/\ result.op = "guess_format"
     /\ (Contains(fp, SCRIPT_INFO) \/ Contains(fp, V4_STYLES)))
    => result.out = "None"

\* a text with a sentinel and a line that matches TMP_LINE has been classified
C8_Witness ==
    /\ result.op = "guess_format"
    /\ (Contains(fp, SCRIPT_INFO) \/ Contains(fp, V4_STYLES))
    /\ \E k \in 1..Len(splitlines(fp)) : TMP_LINE_match(splitlines(fp)[k]).matched

\* C10: every event TmpFormat.from_file produces has start <= end.
C10_StartBeforeEnd ==
    result.op = "from_file" =>
        \A i \in 1..Len(subs.events) : subs.events[i].start <= subs.events[i].end

\* a text of literal characters and hard-breaks \N only, and not empty
LiteralText(text) ==
    /\ text # <<>>
    /\ \A i \in 1..Len(text) :
          \/ text[i] \in Letters
          \/ text[i] = "\\" /\ CharAt(text, i + 1) = "N"

Representable(events) ==
    \A i \in 1..Len(events) :
        /\ ~events[i].is_comment
        /\ events[i].start % 1000 = 0
        /\ events[i].start >= 0 /\ events[i].start <= MAX_REPRESENTABLE_TIME
        /\ LiteralText(events[i].text)

\* C5: a document of non-comment events with whole-second starts in
\* [0, 99:59:59] and literal text with hard-breaks, written by to_file and read
\* back by from_file, has the same events in the same order with the same
\* start and text.
C5_RoundTrip ==
    [][(/\ result.op = "to_file"
        /\ result'.op = "from_file"
        /\ Representable(subs.events))
       => /\ Len(subs'.events) = Len(subs.events)
          /\ \A i \in 1..Len(subs.events) :
                /\ subs'.events[i].start = subs.events[i].start
                /\ subs'.events[i].text = subs.events[i].text]_vars

VisibleEvents(events) == SelectSeq(events, LAMBDA e : ~e.is_comment)

\* the fragments of an event hold letters only, so that each written line is one
\* line of the file
PlainFragments(e) ==
    LET frags == parse_tags(e.text, styles_get(heap, subs.styles, e.style))
    IN  \A k \in 1..Len(frags) :
            \A i \in 1..Len(frags[k].fragment) : frags[k].fragment[i] \in Letters

\* C9: to_file drops only the drawing fragments of a non-comment event: every
\* other fragment's text is in the event's line, whose text is empty only if
\* all fragments are drawings, and the line is written either way.
C9_OnlyDrawingsDropped ==
    (/\ result.op = "to_file"
     /\ \A i \in 1..Len(subs.events) : PlainFragments(subs.events[i]))
    => LET vis == VisibleEvents(subs.events)
           lines == FileLines(fp)
       IN  /\ Len(lines) = Len(vis)
           /\ \A k \in 1..Len(vis) :
                LET frags == parse_tags(vis[k].text,
                                        styles_get(heap, subs.styles, vis[k].style))
                    m == TMP_LINE_match(lines[k])
                IN  /\ \A j \in 1..Len(frags) :
                          ~frags[j].sty.drawing => Contains(lines[k], frags[j].fragment)
                    /\ ~m.matched => \A j \in 1..Len(frags) : frags[j].sty.drawing

(***************************************************************************)
(* Properties of the style operations, under SpecStyles and SpecShare.     *)
(***************************************************************************)
\* the events of d after rename_style(old, new) are those before it, with the
\* style old replaced by new
EventsRenamed(before, after, old_name, new_name) ==
    /\ Len(after) = Len(before)
    /\ \A i \in 1..Len(before) :
          IF before[i].style = old_name
          THEN after[i] = [before[i] EXCEPT !.style = new_name]
          ELSE after[i] = before[i]

\* C2: after a successful rename_style(old, new), old is no key of the style
\* table, new maps to the record old mapped to, the events styled old are
\* styled new and the others are unchanged; a following rename_style(old, x)
\* raises KeyError.
C2_RenameStyle ==
    [][/\ (result'.op = "rename_style" /\ result'.out = "ok") =>
             LET d == result'.d
                 old_name == result'.old
                 new_name == result'.new
             IN  /\ old_name \notin DOMAIN docs'[d].styles
                 /\ new_name \in DOMAIN docs'[d].styles
                 /\ docs'[d].styles[new_name] = docs[d].styles[old_name]
                 /\ heap' = heap
                 /\ EventsRenamed(docs[d].events, docs'[d].events, old_name, new_name)
       /\ (result.op = "rename_style" /\ result.out = "ok" /\ result'.op = "rename_style") =>
             \A x \in NamePool :
                 rename_style(result.d, result.old, x) => result'.out = "KeyError"]_vars

\* a rename has moved some events to the new name and left another event alone
C2_Witness ==
    /\ result.op = "rename_style"
    /\ result.out = "ok"
    /\ \E i, j \in 1..Len(docs[result.d].events) :
          /\ docs[result.d].events[i].style = result.new
          /\ docs[result.d].events[j].style # result.new

\* the styles of document d as a caller sees them: name -> attributes
StyleView(h, doc) == [n \in DOMAIN doc.styles |-> h[doc.styles[n]]]

\* C6: no style record is shared: changing an attribute of a style reached
\* through one document changes no style of another document, nor the
\* "Default" style of the template SSAFile.DEFAULT_STYLES.
C6_NoSharedStyle ==
    [][result'.op = "set_italic" =>
          /\ \A d \in 1..Len(docs) :
                d # result'.d => StyleView(heap', docs'[d]) = StyleView(heap, docs[d])
          /\ heap'[DEFAULT_STYLES["Default"]] = heap[DEFAULT_STYLES["Default"]]]_vars

\* C7: after self.import_styles(other, overwrite) every style name of other is
\* a key of self.styles; a name of both keeps self's record when overwrite is
\* false and has other's when it is true; a name of self alone keeps its
\* record; no event and no style record changes.
C7_ImportStyles ==
    [][result'.op = "import_styles" =>
          LET d == result'.d
              own == docs[d].styles
              incoming == docs[result'.other].styles
              merged == docs'[d].styles
          IN  /\ DOMAIN incoming \subseteq DOMAIN merged
              /\ \A n \in DOMAIN own \cap DOMAIN incoming :
                    merged[n] = IF result'.overwrite THEN incoming[n] ELSE own[n]
              /\ \A n \in DOMAIN own \ DOMAIN incoming : merged[n] = own[n]
              /\ \A n \in DOMAIN incoming \ DOMAIN own : merged[n] = incoming[n]
              /\ heap' = heap
              /\ Len(docs') = Len(docs)
              /\ \A k \in 1..Len(docs) : docs'[k].events = docs[k].events
              /\ \A k \in 1..Len(docs) : k # d => docs'[k] = docs[k]]_vars

\* an import without overwrite has met a name both documents hold with
\* different records, in a document that has events
C7_Witness ==
    /\ result.op = "import_styles"
    /\ ~result.overwrite
    /\ result.d # result.other
    /\ docs[result.d].events # <<>>
    /\ \E n \in DOMAIN docs[result.d].styles \cap DOMAIN docs[result.other].styles :
          docs[result.d].styles[n] # docs[result.other].styles[n]

(***************************************************************************)
(* Properties of retiming and of failing calls, under SpecRetime.          *)
(***************************************************************************)
\* C3: a failing rename_style (old name absent, new name present or invalid)
\* leaves the style table and every event as before the call, and
\* transform_framerate with in_fps <= 0 or out_fps <= 0 fails and changes no
\* event.
C3_FailureAtomic ==
    [][/\ (result'.op \in {"rename_style", "transform_framerate"} /\ result'.out # "ok")
             => (docs' = docs /\ heap' = heap)
       /\ result'.op = "transform_framerate" =>
             \A in_fps, out_fps \in FpsPool :
                 (transform_framerate(1, in_fps, out_fps) /\ (in_fps <= 0 \/ out_fps <= 0))
                 => (result'.out = "ValueError" /\ docs' = docs)
       /\ result'.op = "rename_style" =>
             \A old_name, new_name \in NamePool :
                 (/\ rename_style(1, old_name, new_name)
                  /\ \/ old_name \notin DOMAIN docs[1].styles
                     \/ new_name \in DOMAIN docs[1].styles
                     \/ ~is_valid_field_content(new_name))
                 => (result'.out \in {"KeyError", "ValueError"} /\ docs' = docs)]_vars

\* a rename to an invalid name has failed on a document that has events
C3_Witness ==
    /\ result.op = "rename_style"
    /\ result.out = "ValueError"
    /\ docs[1].events # <<>>
    /\ "Default" \in DOMAIN docs[1].styles

\* C4: shift by delta and then by -delta restores every event's start and end,
\* and leaves the events' number, order, text and style unchanged.
C4_ShiftRoundTrip ==
    [][(result'.op = "shift" /\ result'.undoes) => docs' = pre]_vars

\* a shift below zero has been undone
C4_Witness ==
    /\ result.op = "shift"
    /\ result.undoes
    /\ result.delta > 0
    /\ \E i \in 1..Len(docs[1].events) : docs[1].events[i].start < result.delta

====
